---- MODULE Spec2Model ----
(***************************************************************************)
(* Model of buzzle (src/main.rs): the PGN/FEN puzzle importer              *)
(* (FENImporter) and the solving session (Win::update and its helpers).    *)
(*                                                                         *)
(* The rules engine (shakmaty) and the PGN reader (pgn_reader) are         *)
(* external crates.  The engine is replaced by a small deterministic toy   *)
(* game with the same interface (turn, legals, play_unchecked, FEN         *)
(* decoding, SAN resolution); the reader by the list of visitor events it  *)
(* delivers for each file.                                                 *)
(***************************************************************************)
EXTENDS Integers, Sequences, FiniteSets, TLC

VARIABLES
    can_play,           \* Model.can_play
    current_move,       \* Model.current_move (usize)
    current_position,   \* Model.current_position (Bughouse)
    current_puzzle,     \* Model.current_puzzle (usize)
    puzzles,            \* Model.puzzles (Vec<Puzzle>)
    text,               \* Model.text
    timers,             \* pending timeout(.., 1000, || PlayOpponentMove), oldest first
    msg,                \* the Msg most recently handled by Win::update
    panicked,           \* the process has panicked (the event loop is gone)
    visitor,            \* the FENImporter of an import that is reading a file
    stream              \* the visitor events the reader has delivered to it so far

model_vars == <<can_play, current_move, current_position, current_puzzle, puzzles, text>>
vars == <<can_play, current_move, current_position, current_puzzle, puzzles, text,
          timers, msg, panicked, visitor, stream>>
session_vars == <<can_play, current_move, current_position, current_puzzle, puzzles,
                  text, timers, msg, panicked>>
importer_vars == <<visitor, stream>>

\* ---------------------------------------------------------------- bounds

\* most timeouts pending at once (a submission that would exceed it is not taken)
MaxPending == 2
\* largest current_puzzle explored while the collection is empty (release build,
\* where puzzles.len() - 1 wraps and NextPuzzle keeps counting up)
MaxIndex == 2
\* most visitor events delivered to one importer
MaxEvents == 7

\* usize::MAX stands for 2^64 - 1; only its being larger than every index matters
UsizeMax == 2147483647

\* ------------------------------------------------------- option and vector helpers

\* Option<T> is a set with at most one element
None == {}
Some(x) == {x}
Unwrap(o) == CHOOSE x \in o : TRUE

min(a, b) == IF a < b THEN a ELSE b

\* Vec::get(i) with a 0-based index
get(vec, i) == IF i >= 0 /\ i < Len(vec) THEN Some(vec[i + 1]) ELSE None

\* usize subtraction a - 1 in a release build (wrapping)
wrapping_dec(a) == IF a = 0 THEN UsizeMax ELSE a - 1

\* ------------------------------------------------------------ rules engine

Squares == {1, 2, 3}
Roles == {"P", "N"}
Promotions == {"None", "Q"}

Normal(from, to, promotion) ==
    [kind |-> "Normal", from |-> from, to |-> to, promotion |-> promotion]
Put(role, to) == [kind |-> "Put", role |-> role, to |-> to]

Setups == {"p1", "p2"}

\* Bughouse::from_setup of a decoded FEN: a position with nothing played yet
from_setup(s) == [setup |-> s, played |-> <<>>]

\* Bughouse::default()
default_position == from_setup("startpos")

\* Position::turn: white on even plies, black on odd plies
turn(pos) == IF Len(pos.played) % 2 = 0 THEN "white" ELSE "black"

\* Position::legals
legals(pos) ==
    IF turn(pos) = "white"
    THEN {Normal(1, 2, "None"), Normal(1, 3, "None"), Put("N", 3)}
    ELSE {Normal(2, 1, "None"), Normal(3, 1, "Q"), Put("P", 1)}

\* Position::play_unchecked: plays the move whether or not it is legal
play_unchecked(pos, mov) == [pos EXCEPT !.played = Append(@, mov)]

\* SAN tokens of the movetext and the move each one denotes
SanTokens == {"a", "b", "N@3", "c", "d=Q", "P@1", "zz"}
san_move(tok) ==
    CASE tok = "a" -> Some(Normal(1, 2, "None"))
      [] tok = "b" -> Some(Normal(1, 3, "None"))
      [] tok = "N@3" -> Some(Put("N", 3))
      [] tok = "c" -> Some(Normal(2, 1, "None"))
      [] tok = "d=Q" -> Some(Normal(3, 1, "Q"))
      [] tok = "P@1" -> Some(Put("P", 1))
      [] OTHER -> None

\* San::to_move(&position): Ok(move) when the token denotes a legal move
to_move(tok, pos) == {m \in san_move(tok) : m \in legals(pos)}

\* Fen::from_ascii: the bytes decode when they are exactly one position name
\* ("bad" is well-formed but not a legal position)
from_ascii(bytes) ==
    IF Len(bytes) = 1 /\ bytes[1] \in Setups \cup {"bad"} THEN Some(bytes[1]) ELSE None

\* Bughouse::from_setup(&fen): Ok for a legal position
try_from_setup(fen) == IF fen \in Setups THEN Some(from_setup(fen)) ELSE None

\* ---------------------------------------------------------------- importer

Puzzle(moves, position) == [moves |-> moves, position |-> position]

\* FENImporter::new()
FENImporter_new ==
    [current_position |-> default_position, puzzles |-> <<>>, panicked |-> FALSE]

\* fen.iter().position(|&byte| byte == b'|'): 0-based index of the first '|'
position_of_pipe(fen) ==
    LET hits == {i \in 1..Len(fen) : fen[i] = "|"}
    IN  IF hits = {} THEN None
        ELSE Some((CHOOSE i \in hits : \A j \in hits : i <= j) - 1)

\* FENImporter::header
header(imp, key, value) ==
    IF key # "FEN" THEN imp
    ELSE LET found == position_of_pipe(value) IN
         IF found = None THEN imp
         ELSE LET index == Unwrap(found) IN
              \* &fen[..index - 1]: index - 1 overflows for index = 0 (a panic in a
              \* debug build; in a release build the wrapped end is out of range,
              \* a panic too)
              IF index = 0 THEN [imp EXCEPT !.panicked = TRUE]
              ELSE LET player == SubSeq(value, 1, index - 1)
                       fen == from_ascii(player)
                   IN  IF fen = None THEN imp
                       ELSE LET setup == try_from_setup(Unwrap(fen)) IN
                            IF setup = None THEN imp
                            ELSE [imp EXCEPT
                                    !.current_position = Unwrap(setup),
                                    !.puzzles = Append(@, Puzzle(<<>>, Unwrap(setup)))]

\* a slip that files the move under the first puzzle instead of the last
san_first_puzzle(imp, tok) ==
    IF imp.puzzles = <<>> THEN imp
    ELSE LET mov == to_move(tok, imp.current_position) IN
         IF mov = None THEN imp
         ELSE [imp EXCEPT
                 !.current_position = play_unchecked(@, Unwrap(mov)),
                 !.puzzles[1].moves = Append(@, Unwrap(mov))]

\* FENImporter::san
san(imp, tok) ==
    IF imp.puzzles = <<>> THEN imp
    ELSE LET mov == to_move(tok, imp.current_position) IN
         IF mov = None THEN imp
         ELSE LET n == Len(imp.puzzles) IN
              [imp EXCEPT
                 !.current_position = play_unchecked(@, Unwrap(mov)),
                 !.puzzles[n].moves = Append(@, Unwrap(mov))]

\* a begin_game that starts every record from the default position
begin_game_reset(imp) == [imp EXCEPT !.current_position = default_position]

\* FENImporter::begin_game
begin_game(imp) == imp

\* FENImporter::end_game
end_game(imp) == imp

\* one visitor event
BeginGame == [ev |-> "begin_game"]
EndGame == [ev |-> "end_game"]
Header(key, value) == [ev |-> "header", key |-> key, value |-> value]
San(tok) == [ev |-> "san", tok |-> tok]

visit(imp, e) ==
    IF imp.panicked THEN imp
    ELSE IF e.ev = "header" THEN header(imp, e.key, e.value)
    ELSE IF e.ev = "san" THEN san(imp, e.tok)
    ELSE IF e.ev = "begin_game" THEN begin_game(imp)
    ELSE end_game(imp)

\* BufferedReader::read_all: the visitor sees the events in document order
RECURSIVE read_all(_, _)
read_all(imp, events) ==
    IF events = <<>> THEN imp
    ELSE read_all(visit(imp, Head(events)), Tail(events))

\* The files the trainee may pick.  readable: File::open and read_to_end succeed;
\* well_formed: read_all returns Ok; events: what the reader delivers.
FileNames == {"missing", "broken", "nopuzzle", "two", "even", "pipe0"}

File(name) ==
    CASE name = "missing" ->
           [readable |-> FALSE, well_formed |-> TRUE, events |-> <<>>]
      [] name = "broken" ->
           [readable |-> TRUE, well_formed |-> FALSE,
            events |-> <<Header("FEN", <<"p1", " ", "|", " ", "q">>), San("a")>>]
      [] name = "nopuzzle" ->
           [readable |-> TRUE, well_formed |-> TRUE,
            events |-> <<Header("Event", <<"x">>),
                         Header("FEN", <<"p1", " ", "q">>),
                         San("a")>>]
      [] name = "two" ->
           [readable |-> TRUE, well_formed |-> TRUE,
            events |-> <<Header("Event", <<"p1", " ", "|", " ", "q">>),
                         Header("FEN", <<"p1", " ", "|", " ", "q">>),
                         San("a"),
                         Header("FEN", <<"p2", " ", "|", " ", "q">>),
                         San("a"), San("zz"), San("P@1"), San("b")>>]
      [] name = "even" ->
           [readable |-> TRUE, well_formed |-> TRUE,
            events |-> <<San("a"),
                         Header("FEN", <<"x", "y", " ", "|", " ", "q">>),
                         Header("FEN", <<"p1", "|", "q">>),
                         Header("FEN", <<"p2", " ", "|", " ", "q", "|", "r">>),
                         San("b"), San("a"), San("c"),
                         Header("FEN", <<"bad", " ", "|", " ", "q">>),
                         Header("FEN", <<"p1", " ", "q">>)>>]
      [] name = "pipe0" ->
           [readable |-> TRUE, well_formed |-> TRUE,
            events |-> <<Header("FEN", <<"p1", " ", "|", " ", "q">>),
                         San("a"),
                         Header("FEN", <<"|", " ", "p2">>)>>]

\* ----------------------------------------------------------------- session

\* the widget's state as one value: the Model fields and the pending timeouts
Self ==
    [can_play |-> can_play, current_move |-> current_move,
     current_position |-> current_position, current_puzzle |-> current_puzzle,
     puzzles |-> puzzles, text |-> text, timers |-> timers]

\* Win::model
Init ==
    /\ can_play = TRUE
    /\ current_move = 0
    /\ current_position = default_position
    /\ current_puzzle = 0
    /\ puzzles = <<>>
    /\ text = ""
    /\ timers = <<>>
    /\ msg = [type |-> "Init"]
    /\ panicked = FALSE
    /\ visitor = FENImporter_new
    /\ stream = <<>>

\* Win::show_position
show_position(s) ==
    LET puzzle == get(s.puzzles, s.current_puzzle) IN
    IF puzzle # None
    THEN [s EXCEPT !.current_position = Unwrap(puzzle).position]
    ELSE s

\* timeout(self.model.relm.stream(), 1000, || PlayOpponentMove); the closure holds
\* no data: puzzle and move only record where the session was when it was armed
timeout(s) ==
    [s EXCEPT !.timers = Append(@, [puzzle |-> s.current_puzzle, move |-> s.current_move])]

\* Win::try_move, the branch mov == current_move
right_answer(s, puzzle, mov) ==
    LET played == [s EXCEPT !.current_move = @ + 1,
                            !.current_position = play_unchecked(@, mov),
                            !.can_play = FALSE]
    IN  IF played.current_move = Len(puzzle.moves)
        THEN [played EXCEPT !.text = "Success"]
        ELSE timeout(played)

\* a slip that counts the move before comparing it
wrong_answer_counted(s) == [s EXCEPT !.text = "Wrong answer", !.current_move = @ + 1]

\* Win::try_move, the branch mov != current_move
wrong_answer(s) == [s EXCEPT !.text = "Wrong answer"]

\* Win::try_move
try_move(s, mov) ==
    LET puzzle == get(s.puzzles, s.current_puzzle) IN
    IF puzzle = None THEN s
    ELSE LET current == get(Unwrap(puzzle).moves, s.current_move) IN
         IF current = None THEN s
         ELSE IF mov = None THEN s
         ELSE IF Unwrap(mov) = Unwrap(current)
              THEN right_answer(s, Unwrap(puzzle), Unwrap(mov))
              ELSE wrong_answer(s)

\* legals.iter().find(..) of the MovePlayed handler
find_move(pos, orig, dest, promotion) ==
    {m \in legals(pos) :
        /\ m.kind = "Normal"
        /\ m.from = orig
        /\ m.to = dest
        /\ m.promotion = promotion}

\* Win::update, MovePlayed(orig, dest, promotion)
move_played(s, orig, dest, promotion) ==
    IF ~s.can_play THEN s
    ELSE try_move([s EXCEPT !.text = ""],
                  find_move(s.current_position, orig, dest, promotion))

\* a drop handler that forgets the can_play gate
piece_drop_ungated(s, role, to) ==
    LET mov == Put(role, to) IN
    IF mov \in legals(s.current_position) THEN try_move(s, Some(mov)) ELSE s

\* Win::update, PieceDrop(piece, to); only piece.role is used
piece_drop(s, role, to) ==
    IF ~s.can_play THEN s
    ELSE LET mov == Put(role, to) IN
         IF mov \in legals(s.current_position) THEN try_move(s, Some(mov)) ELSE s

\* a slip that drops the clamp to the last index
next_puzzle_unclamped(s) ==
    show_position([s EXCEPT !.current_move = 0, !.current_puzzle = @ + 1])

\* Win::update, NextPuzzle, where puzzles.len() - 1 does not overflow or wraps
next_puzzle(s) ==
    show_position([s EXCEPT
        !.current_move = 0,
        !.current_puzzle = min(@ + 1, wrapping_dec(Len(s.puzzles)))])

\* a PreviousPuzzle that forgets to show the position
previous_puzzle_not_shown(s) ==
    [s EXCEPT !.current_move = 0,
              !.current_puzzle = IF @ > 0 THEN @ - 1 ELSE @]

\* Win::update, PreviousPuzzle
previous_puzzle(s) ==
    show_position([s EXCEPT
        !.current_move = 0,
        !.current_puzzle = IF @ > 0 THEN @ - 1 ELSE @])

\* Win::update, PlayOpponentMove (the timeout that fired is already off the list)
play_opponent_move(s) ==
    LET puzzle == get(s.puzzles, s.current_puzzle) IN
    IF puzzle = None THEN s
    ELSE LET current == get(Unwrap(puzzle).moves, s.current_move) IN
         IF current = None THEN s
         ELSE [s EXCEPT !.can_play = TRUE,
                        !.current_move = @ + 1,
                        !.current_position = play_unchecked(@, Unwrap(current))]

\* Win::import_file, the assignments after read_all succeeded
load_puzzles(s, pzs) ==
    show_position([s EXCEPT !.puzzles = pzs,
                            !.current_puzzle = 0,
                            !.current_move = 0,
                            !.can_play = TRUE,
                            !.text = ""])

\* a slip that installs what was parsed before looking at read_all's result
import_file_eager(s, filename) ==
    LET f == File(filename) IN
    IF ~f.readable THEN [result |-> "Err", self |-> s]
    ELSE LET importer == read_all(FENImporter_new, f.events) IN
         IF importer.panicked THEN [result |-> "Panic", self |-> s]
         ELSE [result |-> IF f.well_formed THEN "Ok" ELSE "Err",
               self |-> load_puzzles(s, importer.puzzles)]

\* Win::import_file: result is "Ok", "Err" (the ? returns) or "Panic"
import_file(s, filename) ==
    LET f == File(filename) IN
    IF ~f.readable THEN [result |-> "Err", self |-> s]
    ELSE LET importer == read_all(FENImporter_new, f.events) IN
         IF importer.panicked THEN [result |-> "Panic", self |-> s]
         ELSE IF ~f.well_formed THEN [result |-> "Err", self |-> s]
         ELSE [result |-> "Ok", self |-> load_puzzles(s, importer.puzzles)]

\* ----------------------------------------------------------------- actions

\* the event loop takes messages until the process panics or quits
Running == ~panicked /\ msg.type # "Quit"

\* the handler leaves the widget in state s
Becomes(s) ==
    /\ Len(s.timers) <= MaxPending
    /\ can_play' = s.can_play
    /\ current_move' = s.current_move
    /\ current_position' = s.current_position
    /\ current_puzzle' = s.current_puzzle
    /\ puzzles' = s.puzzles
    /\ text' = s.text
    /\ timers' = s.timers

Flip ==
    /\ Running
    /\ msg' = [type |-> "Flip"]
    /\ UNCHANGED <<model_vars, timers, panicked, importer_vars>>

\* ImportPGN with one file chosen in the dialog (the chooser is single-selection,
\* so the loop over get_filenames() runs once); an Err result shows the message
\* dialog and changes nothing
ImportPGN ==
    /\ Running
    /\ \E filename \in FileNames :
        LET r == import_file(Self, filename) IN
        /\ msg' = [type |-> "ImportPGN", filename |-> filename, result |-> r.result]
        /\ Becomes(r.self)
        /\ panicked' = (r.result = "Panic")
    /\ UNCHANGED importer_vars

\* ImportPGN with the dialog cancelled
ImportCancel ==
    /\ Running
    /\ msg' = [type |-> "ImportPGN", filename |-> "", result |-> "Cancel"]
    /\ UNCHANGED <<model_vars, timers, panicked, importer_vars>>

MovePlayed ==
    /\ Running
    /\ \E orig \in Squares, dest \in Squares, promotion \in Promotions :
        /\ msg' = [type |-> "MovePlayed", orig |-> orig, dest |-> dest,
                   promotion |-> promotion]
        /\ Becomes(move_played(Self, orig, dest, promotion))
    /\ UNCHANGED <<panicked, importer_vars>>

PieceDrop ==
    /\ Running
    /\ \E role \in Roles, to \in Squares :
        /\ msg' = [type |-> "PieceDrop", role |-> role, to |-> to]
        /\ Becomes(piece_drop(Self, role, to))
    /\ UNCHANGED <<panicked, importer_vars>>

\* NextPuzzle where puzzles.len() - 1 does not overflow, or in a build without
\* overflow checks (release), where it wraps
NextPuzzle ==
    /\ Running
    /\ puzzles # <<>> \/ current_puzzle < MaxIndex
    /\ msg' = [type |-> "NextPuzzle"]
    /\ Becomes(next_puzzle(Self))
    /\ UNCHANGED <<panicked, importer_vars>>

\* NextPuzzle on an empty collection in a build with overflow checks (debug):
\* puzzles.len() - 1 panics after current_move was reset
NextPuzzleOverflow ==
    /\ Running
    /\ puzzles = <<>>
    /\ msg' = [type |-> "NextPuzzle"]
    /\ Becomes([Self EXCEPT !.current_move = 0])
    /\ panicked' = TRUE
    /\ UNCHANGED importer_vars

PreviousPuzzle ==
    /\ Running
    /\ msg' = [type |-> "PreviousPuzzle"]
    /\ Becomes(previous_puzzle(Self))
    /\ UNCHANGED <<panicked, importer_vars>>

\* the oldest pending timeout fires
PlayOpponentMove ==
    /\ Running
    /\ timers # <<>>
    /\ msg' = [type |-> "PlayOpponentMove", puzzle |-> Head(timers).puzzle,
               move |-> Head(timers).move]
    /\ Becomes(play_opponent_move([Self EXCEPT !.timers = Tail(@)]))
    /\ UNCHANGED <<panicked, importer_vars>>

Quit ==
    /\ Running
    /\ msg' = [type |-> "Quit"]
    /\ UNCHANGED <<model_vars, timers, panicked, importer_vars>>

Next ==
    \/ Flip
    \/ ImportPGN
    \/ ImportCancel
    \/ MovePlayed
    \/ PieceDrop
    \/ NextPuzzle
    \/ NextPuzzleOverflow
    \/ PreviousPuzzle
    \/ PlayOpponentMove
    \/ Quit

Spec == Init /\ [][Next]_vars

\* ------------------------------------------------- the importer, event by event

\* header values the reader may hand over (as bytes)
HeaderValues ==
    {<<"p1", " ", "|", " ", "q">>,      \* separator, decodable, legal
     <<"p1", " ", "q">>,                \* no separator
     <<"p1", "|", "q">>,                \* no byte to cut before the separator
     <<"bad", " ", "|", " ", "q">>,     \* decodes to an illegal position
     <<"|", " ", "p2">>}                \* separator at index 0
HeaderKeys == {"FEN", "Event"}
StreamTokens == {"a", "c", "P@1", "zz"}

\* where the reader is in the file: between games, in a game's tag section, or
\* in its movetext
Phase ==
    IF stream = <<>> THEN "idle"
    ELSE LET last == stream[Len(stream)].ev IN
         IF last = "end_game" THEN "idle"
         ELSE IF last = "san" THEN "moves"
         ELSE "headers"

\* the reader hands event e to the visitor
Deliver(e) ==
    /\ ~visitor.panicked
    /\ Len(stream) < MaxEvents
    /\ stream' = Append(stream, e)
    /\ visitor' = visit(visitor, e)
    /\ UNCHANGED session_vars

ReadBeginGame == Phase = "idle" /\ Deliver(BeginGame)

ReadHeader ==
    /\ Phase = "headers"
    /\ \E key \in HeaderKeys, value \in HeaderValues :
         /\ key = "Event" => value = <<"p1", " ", "|", " ", "q">>
         /\ Deliver(Header(key, value))

ReadSan ==
    /\ Phase \in {"headers", "moves"}
    /\ \E tok \in StreamTokens : Deliver(San(tok))

ReadEndGame == Phase \in {"headers", "moves"} /\ Deliver(EndGame)

ReadNext ==
    \/ ReadBeginGame
    \/ ReadHeader
    \/ ReadSan
    \/ ReadEndGame

\* BufferedReader::read_all driving a fresh FENImporter
ImporterSpec == Init /\ [][ReadNext]_vars

\* ------------------------------------------------------------------ claims

\* the step handled a candidate move (board move or drop)
Submitted(m) == m.type \in {"MovePlayed", "PieceDrop"}

\* the candidate of message m is the move mov
CandidateIs(m, mov) ==
    IF m.type = "MovePlayed"
    THEN /\ mov.kind = "Normal"
         /\ mov.from = m.orig
         /\ mov.to = m.dest
         /\ mov.promotion = m.promotion
    ELSE mov = Put(m.role, m.to)

\* the candidate of message m resolves to a legal move of pos
Resolves(m, pos) == \E mov \in legals(pos) : CandidateIs(m, mov)

\* solution_moves[current_move_index] of the active puzzle, as an Option
Expected ==
    LET puzzle == get(puzzles, current_puzzle) IN
    IF puzzle = None THEN None ELSE get(Unwrap(puzzle).moves, current_move)

\* the candidate of message m is the expected solution move
Matches(m) == Expected # None /\ CandidateIs(m, Unwrap(Expected))

\* pos advanced by the moves of a sequence, in order
RECURSIVE Advance(_, _)
Advance(pos, moves) ==
    IF moves = <<>> THEN pos
    ELSE Advance(play_unchecked(pos, Head(moves)), Tail(moves))

\* C1: a puzzle played through by its recorded solution (the position is the
\* initial position advanced by every solution move, the last submission or reply
\* has been handled and no reply is pending) ends with status text "Success" and
\* current_move = len(solution_moves); stated for puzzles with at least one move.
C1_SolutionEndsInSuccess ==
    \A i \in 1..Len(puzzles) :
        (/\ current_puzzle = i - 1
         /\ Len(puzzles[i].moves) > 0
         /\ msg.type \in {"MovePlayed", "PieceDrop", "PlayOpponentMove"}
         /\ current_position = Advance(puzzles[i].position, puzzles[i].moves)
         /\ timers = <<>>)
        => (text = "Success" /\ current_move = Len(puzzles[i].moves))

\* C2: a reply armed at (puzzle p, move i) that fires when the active puzzle is no
\* longer p or current_move is no longer i changes neither current_position,
\* current_move nor can_play.
C2_StaleReplyDiscarded ==
    [][(/\ msg'.type = "PlayOpponentMove"
        /\ timers # <<>>
        /\ (Head(timers).puzzle # current_puzzle \/ Head(timers).move # current_move))
       => UNCHANGED <<current_position, current_move, can_play>>]_vars

\* C3: after NextPuzzle or PreviousPuzzle on a non-empty collection the session is
\* in the fresh state of the active puzzle: current_move = 0, current_position is
\* its initial position, text = "" and can_play = TRUE.
C3_NavigationShowsFreshPuzzle ==
    [][(/\ msg'.type \in {"NextPuzzle", "PreviousPuzzle"}
        /\ puzzles # <<>>)
       => (/\ current_move' = 0
           /\ get(puzzles', current_puzzle') # None
           /\ current_position' = Unwrap(get(puzzles', current_puzzle')).position
           /\ text' = ""
           /\ can_play' = TRUE)]_vars

\* C4: a candidate that is not the expected solution move never changes
\* current_position or current_move, legal or not; an accepted legal-but-wrong
\* candidate (can_play, an expected move exists) sets text to "Wrong answer" and
\* changes nothing else: can_play stays TRUE and no reply is scheduled.
C4_WrongCandidateFrame ==
    [][(Submitted(msg') /\ ~Matches(msg'))
       => (/\ UNCHANGED <<current_position, current_move>>
           /\ (can_play /\ Expected # None /\ Resolves(msg', current_position))
              => (/\ text' = "Wrong answer"
                  /\ can_play' = TRUE
                  /\ UNCHANGED <<current_puzzle, puzzles, timers>>))]_vars

\* C4 witness: a legal-but-wrong candidate has just been answered "Wrong answer"
C4_Witness ==
    /\ Submitted(msg)
    /\ can_play
    /\ Expected # None
    /\ Resolves(msg, current_position)
    /\ ~Matches(msg)
    /\ text = "Wrong answer"

\* C5: can_play is FALSE exactly when an opponent reply is pending.
C5_CanPlayIffNoReplyPending == can_play <=> (timers = <<>>)

\* C6: with a non-empty collection current_puzzle is in [0, len(puzzles) - 1];
\* NextPuzzle moves it to min(index + 1, len - 1) and PreviousPuzzle to
\* max(index - 1, 0), so both are no-ops at the respective end.
C6_IndexClamped ==
    /\ [](puzzles # <<>> => current_puzzle \in 0..(Len(puzzles) - 1))
    /\ [][(msg'.type = "NextPuzzle" /\ puzzles # <<>>)
          => (/\ current_puzzle' = min(current_puzzle + 1, Len(puzzles) - 1)
              /\ (current_puzzle = Len(puzzles) - 1 => current_puzzle' = current_puzzle)
              /\ puzzles' = puzzles)]_vars
    /\ [][(msg'.type = "PreviousPuzzle" /\ puzzles # <<>>)
          => (/\ current_puzzle' = IF current_puzzle = 0 THEN 0 ELSE current_puzzle - 1
              /\ puzzles' = puzzles)]_vars

\* C6 witness: NextPuzzle was handled at the last index of a one-puzzle collection
\* (index 0 is the last index, so the request could only leave it where it was)
C6_Witness ==
    /\ msg.type = "NextPuzzle"
    /\ Len(puzzles) = 1
    /\ current_puzzle = 0
    /\ ~panicked

\* C7: when can_play holds and the candidate is the expected move, the move is
\* applied, current_move grows by one and can_play becomes FALSE; text becomes
\* "Success" with no reply scheduled iff the new current_move is
\* len(solution_moves); otherwise exactly one reply is scheduled and text is not
\* "Success".
C7_MatchingMoveAdvances ==
    [][(Submitted(msg') /\ can_play /\ Matches(msg'))
       => LET len == Len(Unwrap(get(puzzles, current_puzzle)).moves) IN
          /\ current_position' = play_unchecked(current_position, Unwrap(Expected))
          /\ current_move' = current_move + 1
          /\ can_play' = FALSE
          /\ (text' = "Success" /\ timers' = timers) <=> (current_move' = len)
          /\ (current_move' # len)
             => (/\ Len(timers') = Len(timers) + 1
                 /\ text' # "Success")]_vars

\* the puzzles the importer builds from a file
Imported(filename) == read_all(FENImporter_new, File(filename).events).puzzles

\* C8: an import that succeeds with zero puzzles leaves the previously loaded
\* puzzles, current_puzzle, current_move, current_position, can_play and text
\* unchanged.
C8_EmptyImportIsNoOp ==
    [][(/\ msg'.type = "ImportPGN"
        /\ msg'.result = "Ok"
        /\ Imported(msg'.filename) = <<>>
        /\ puzzles # <<>>)
       => UNCHANGED model_vars]_vars

\* the import of the file fails with an I/O error or a structural parse error
Fails(filename) == ~File(filename).readable \/ ~File(filename).well_formed

\* C9: an import that fails with an I/O error or a structural parse error leaves
\* the whole session unchanged; a successful import replaces puzzles, indexes,
\* position, can_play and text in the one step.
C9_FailedImportUnchanged ==
    [][(msg'.type = "ImportPGN" /\ msg'.result # "Cancel")
       => (/\ (Fails(msg'.filename) /\ ~panicked')
              => (msg'.result = "Err" /\ UNCHANGED <<model_vars, timers>>)
           /\ (~Fails(msg'.filename) /\ ~panicked')
              => (/\ msg'.result = "Ok"
                  /\ puzzles' = Imported(msg'.filename)
                  /\ current_puzzle' = 0
                  /\ current_move' = 0
                  /\ can_play' = TRUE
                  /\ text' = ""
                  /\ puzzles' # <<>> => current_position' = puzzles'[1].position))]_vars

\* C9 witness: a structurally broken file whose records would have made a puzzle
\* was refused while another puzzle set, partly played, was loaded
C9_Witness ==
    /\ msg.type = "ImportPGN"
    /\ msg.result = "Err"
    /\ ~File(msg.filename).well_formed
    /\ Imported(msg.filename) # <<>>
    /\ Len(puzzles) = 2
    /\ current_move > 0

\* C10: a candidate that does not resolve to a legal move of current_position
\* leaves the whole session unchanged, text included.
C10_UnresolvedCandidateIgnored ==
    [][(Submitted(msg') /\ ~Resolves(msg', current_position))
       => UNCHANGED <<model_vars, timers>>]_vars

\* C13: while can_play is FALSE a candidate move, matching or not, is ignored:
\* no Model field changes and no reply is scheduled.
C13_BlockedCandidateIgnored ==
    [][(Submitted(msg') /\ ~can_play) => UNCHANGED <<model_vars, timers>>]_vars

\* C13 witness: the expected move was submitted while can_play was FALSE (no two
\* consecutive solution moves are equal, so an accepted match would not match
\* the new expected move, and an accepted mismatch would leave can_play TRUE)
C13_Witness ==
    /\ Submitted(msg)
    /\ ~can_play
    /\ Matches(msg)
    /\ \A i \in 1..Len(puzzles) : \A j \in 1..(Len(puzzles[i].moves) - 1) :
          puzzles[i].moves[j] # puzzles[i].moves[j + 1]

\* C14: every firing of the reply timer applies the expected solution move of the
\* active puzzle to current_position, adds one to current_move and sets can_play.
C14_ReplyAlwaysApplied ==
    [][(msg'.type = "PlayOpponentMove")
       => (/\ Expected # None
           /\ current_position' = play_unchecked(current_position, Unwrap(Expected))
           /\ current_move' = current_move + 1
           /\ can_play' = TRUE)]_vars

\* C15: on an empty collection NextPuzzle and PreviousPuzzle are no-ops: nothing
\* faults, current_puzzle stays 0 and every other field is unchanged.
C15_NavigationOnEmptyIsNoOp ==
    [][(msg'.type \in {"NextPuzzle", "PreviousPuzzle"} /\ puzzles = <<>>)
       => (/\ ~panicked'
           /\ current_puzzle' = 0
           /\ UNCHANGED <<can_play, current_move, current_position, puzzles, text,
                          timers>>)]_vars

\* C17: with a non-empty collection current_move <= len(solution_moves) of the
\* active puzzle and current_position is its initial position advanced by the
\* first current_move solution moves.
C17_PositionFollowsSolution ==
    puzzles # <<>> =>
        /\ get(puzzles, current_puzzle) # None
        /\ LET puzzle == Unwrap(get(puzzles, current_puzzle)) IN
           /\ current_move <= Len(puzzle.moves)
           /\ current_position =
                  Advance(puzzle.position, SubSeq(puzzle.moves, 1, current_move))

\* C17 witness: a reply armed on another puzzle has fired on the active one and
\* played its first move
C17_Witness ==
    /\ msg.type = "PlayOpponentMove"
    /\ msg.puzzle # current_puzzle
    /\ puzzles # <<>>
    /\ current_move = 1
    /\ can_play

\* C18: at most one reply timer is pending at any time.
C18_AtMostOneReplyPending == Len(timers) <= 1

\* C19: whenever the active puzzle has unconsumed solution moves, can_play holds
\* or a reply is pending (whose firing sets can_play); the trainee is never left
\* with can_play FALSE, nothing pending and moves still to play.
C19_NeverBlockedForGood ==
    Expected # None => (can_play \/ timers # <<>>)

\* ------------------------------------------------------ claims on the importer

\* the step delivered one event to the visitor; Event is that event
Delivered == Len(stream') = Len(stream) + 1
Event == stream'[Len(stream')]

\* the bytes before the first separator minus one trailing byte (empty when there
\* are fewer than two bytes before it)
HasSeparator(value) == \E i \in 1..Len(value) : value[i] = "|"
LeftSubstring(value) ==
    LET k == CHOOSE i \in 1..Len(value) :
                 value[i] = "|" /\ \A j \in 1..(i - 1) : value[j] # "|"
    IN  SubSeq(value, 1, k - 2)

\* the position a header creates a puzzle for, as an Option: the key is FEN, the
\* value has a separator, its left substring decodes, and to a legal position
Creates(e) ==
    IF e.ev = "header" /\ e.key = "FEN" /\ HasSeparator(e.value)
    THEN LET fen == from_ascii(LeftSubstring(e.value)) IN
         IF fen = None THEN None ELSE try_from_setup(Unwrap(fen))
    ELSE None

\* the initial positions of the puzzles the headers of a stream create, in order
RECURSIVE Created(_)
Created(events) ==
    IF events = <<>> THEN <<>>
    ELSE LET rest == Created(SubSeq(events, 1, Len(events) - 1))
             made == Creates(events[Len(events)])
         IN  IF made = None THEN rest ELSE Append(rest, Unwrap(made))

\* C11: the puzzle sequence holds one puzzle per FEN header that passes the three
\* checks, in document order; such a header appends a puzzle with no moves and
\* sets the cursor to its position; any other header leaves puzzles and cursor
\* as they were and the importer goes on, so that later headers still count.
C11_OnePuzzlePerValidHeader ==
    /\ [](/\ Len(visitor.puzzles) = Len(Created(stream))
          /\ \A i \in 1..Len(visitor.puzzles) :
                visitor.puzzles[i].position = Created(stream)[i])
    /\ [][(Delivered /\ Event.ev = "header")
          => IF Creates(Event) # None
             THEN /\ visitor'.puzzles =
                        Append(visitor.puzzles, Puzzle(<<>>, Unwrap(Creates(Event))))
                  /\ visitor'.current_position = Unwrap(Creates(Event))
                  /\ ~visitor'.panicked
             ELSE /\ visitor'.puzzles = visitor.puzzles
                  /\ visitor'.current_position = visitor.current_position
                  /\ ~visitor'.panicked]_vars

\* C12: once a puzzle exists, a move token is appended to the last puzzle's moves
\* iff it resolves against the cursor, and the cursor is then the old cursor
\* advanced by that move; a token that does not resolve, or that comes before any
\* puzzle, changes neither the puzzles nor the cursor.
C12_TokenAppendedIffResolved ==
    [][(Delivered /\ Event.ev = "san")
       => LET n == Len(visitor.puzzles)
              movs == {m \in legals(visitor.current_position) :
                          m \in san_move(Event.tok)}
          IN  IF n > 0 /\ movs # {}
              THEN \E m \in movs :
                     /\ Len(visitor'.puzzles) = n
                     /\ visitor'.puzzles[n].moves = Append(visitor.puzzles[n].moves, m)
                     /\ visitor'.puzzles[n].position = visitor.puzzles[n].position
                     /\ \A i \in 1..(n - 1) : visitor'.puzzles[i] = visitor.puzzles[i]
                     /\ visitor'.current_position =
                            play_unchecked(visitor.current_position, m)
              ELSE /\ visitor'.puzzles = visitor.puzzles
                   /\ visitor'.current_position = visitor.current_position]_vars

\* C12 witness: with two puzzles made, the last token delivered resolved and is
\* the last move of the last puzzle, which now has two moves
C12_Witness ==
    /\ Len(visitor.puzzles) = 2
    /\ stream # <<>>
    /\ stream[Len(stream)].ev = "san"
    /\ Len(visitor.puzzles[2].moves) = 2
    /\ san_move(stream[Len(stream)].tok) = {visitor.puzzles[2].moves[2]}

\* C16: a FEN header whose value holds the separator, at any index (0 included),
\* is handled without aborting the import: one puzzle is appended when the bytes
\* before the separator minus one trailing byte decode to a legal position, and
\* nothing changes otherwise.
C16_SeparatorAnywhereHandled ==
    [][(Delivered /\ Event.ev = "header" /\ Event.key = "FEN"
                  /\ HasSeparator(Event.value))
       => /\ ~visitor'.panicked
          /\ LET fen == from_ascii(LeftSubstring(Event.value))
                 ok == fen # None /\ try_from_setup(Unwrap(fen)) # None
             IN  IF ok
                 THEN Len(visitor'.puzzles) = Len(visitor.puzzles) + 1
                 ELSE visitor'.puzzles = visitor.puzzles]_vars

\* index of the last event of the stream that satisfies P (0 when there is none)
LastIndex(P(_)) ==
    LET hits == {i \in 1..Len(stream) : P(stream[i])}
    IN  IF hits = {} THEN 0 ELSE CHOOSE i \in hits : \A j \in hits : j <= i

IsBeginGame(e) == e.ev = "begin_game"
IsCreator(e) == Creates(e) # None

\* the record being read has a header that created a puzzle
RecordHasPuzzle == LastIndex(IsCreator) > LastIndex(IsBeginGame)

\* C20: a move is only appended to a puzzle by a token of the record whose FEN
\* header created that puzzle; the tokens of a later record whose header was
\* skipped are not appended to the earlier record's puzzle.
C20_MovesFromOwnRecord ==
    [][(Delivered /\ Event.ev = "san" /\ visitor'.puzzles # visitor.puzzles)
       => RecordHasPuzzle]_vars

\* C20 as amended: begin_game and end_game change neither cursor nor puzzles, a
\* header never changes the moves of a puzzle already made, and a token only ever
\* appends to the most recently made puzzle; so a token of a later record whose
\* header was skipped is appended to the earlier record's puzzle whenever it
\* resolves against the cursor left there.
C20_MovesGoToLastPuzzle ==
    [][Delivered
       => LET n == Len(visitor.puzzles) IN
          /\ Event.ev \in {"begin_game", "end_game"} => visitor' = visitor
          /\ Len(visitor'.puzzles) >= n
          /\ \A i \in 1..n :
                /\ visitor'.puzzles[i].position = visitor.puzzles[i].position
                /\ (i < n \/ Event.ev # "san")
                   => visitor'.puzzles[i].moves = visitor.puzzles[i].moves
          /\ (/\ Event.ev = "san"
              /\ n > 0
              /\ ~RecordHasPuzzle
              /\ to_move(Event.tok, visitor.current_position) # None)
             => visitor'.puzzles[n].moves =
                    Append(visitor.puzzles[n].moves,
                           Unwrap(to_move(Event.tok, visitor.current_position)))]_vars

\* C20 witness: the one puzzle holds more moves than its own record has tokens,
\* and the token just delivered belongs to a later record whose header made none
C20_Witness ==
    /\ Len(visitor.puzzles) = 1
    /\ ~RecordHasPuzzle
    /\ stream[Len(stream)].ev = "san"
    /\ Len(visitor.puzzles[1].moves) >
          Cardinality({i \in LastIndex(IsCreator)..LastIndex(IsBeginGame) :
                          stream[i].ev = "san"})

====
